---- MODULE Spec2Model ----
(***************************************************************************)
(* The Solution class of src/lib/solve_24.cpp: a recursive search that     *)
(* reduces a vector of numbers with + * - / until one value is left and    *)
(* compares it with a target.  Three searches share the traversal:         *)
(* solution_exists (a bool), solve_first (the first trace, stored in       *)
(* first_solution) and solve_all (every trace, appended to solutions).     *)
(*                                                                         *)
(* A double is modelled as a pair <<n, d>>:                                *)
(*   d > 0          the finite value n/d in lowest terms (<<0,1>> is +0)   *)
(*   <<0, -1>>      the IEEE negative zero                                 *)
(*   <<1, 0>>, <<-1, 0>>   +infinity and -infinity                         *)
(*   <<0, 0>>       NaN                                                    *)
(* Finite arithmetic is exact: the rounding of a double (relative error    *)
(* 2^-53) is not modelled, the IEEE special values are.                    *)
(***************************************************************************)
EXTENDS Integers, Sequences, FiniteSets, TLC

\* ------------------------------------------------------------- bounds
\* a freshly constructed object holds a vector of length 0..MaxLen
MaxLen == 3
\* a reused object (SpecLife) holds a vector of length 0..LifeLen and sees
\* MaxCalls method calls and field assignments
LifeLen == 2
MaxCalls == 3
\* the call-by-call machine (SpecStep) runs on vectors of length 0..StepLen
StepLen == 3

\* ------------------------------------------------- program constants
DefaultTarget == 24
\* the tolerance of the base case is 1e-8 == 1 / EpsDen
EpsDen == 100000000
\* std::to_string(double) formats with "%f": six decimals
ToStringScale == 1000000

\* ------------------------------------------------------------ doubles
PosZero == <<0, 1>>
NegZero == <<0, -1>>
PosInf == <<1, 0>>
NegInf == <<-1, 0>>
NaN == <<0, 0>>

Abs(x) == IF x < 0 THEN -x ELSE x

RECURSIVE GCD(_, _)
GCD(a, b) == IF b = 0 THEN a ELSE GCD(b, a % b)

\* n/d with d > 0 and n # 0, in lowest terms
Norm(n, d) == LET g == GCD(Abs(n), d) IN <<n \div g, d \div g>>

IsNaN(v) == v = NaN
IsInf(v) == v[2] = 0 /\ v[1] # 0
IsZero(v) == v[1] = 0 /\ v[2] # 0
\* the sign bit (of a non-NaN value)
IsNeg(v) == v[1] < 0 \/ v = NegZero
Den(v) == Abs(v[2])

SignedZero(neg) == IF neg THEN NegZero ELSE PosZero
SignedInf(neg) == IF neg THEN NegInf ELSE PosInf

\* vector<double> values(numbers.begin(), numbers.end())
ToDouble(k) == <<k, 1>>

Neg(v) ==
    IF IsNaN(v) THEN NaN
    ELSE IF IsZero(v) THEN SignedZero(~IsNeg(v))
    ELSE <<-v[1], v[2]>>

\* a + b
Add(a, b) ==
    IF IsNaN(a) \/ IsNaN(b) THEN NaN
    ELSE IF IsInf(a) THEN (IF IsInf(b) /\ b # a THEN NaN ELSE a)
    ELSE IF IsInf(b) THEN b
    ELSE LET n == a[1] * Den(b) + b[1] * Den(a)
         IN  IF n = 0
             THEN SignedZero(a = NegZero /\ b = NegZero)
             ELSE Norm(n, Den(a) * Den(b))

\* a - b
Sub(a, b) == Add(a, Neg(b))

\* a * b
Mul(a, b) ==
    IF IsNaN(a) \/ IsNaN(b) THEN NaN
    ELSE IF (IsInf(a) /\ IsZero(b)) \/ (IsZero(a) /\ IsInf(b)) THEN NaN
    ELSE IF IsInf(a) \/ IsInf(b) THEN SignedInf(IsNeg(a) # IsNeg(b))
    ELSE IF IsZero(a) \/ IsZero(b) THEN SignedZero(IsNeg(a) # IsNeg(b))
    ELSE Norm(a[1] * b[1], a[2] * b[2])

\* a / b: no guard on b, the IEEE quotient
Div(a, b) ==
    IF IsNaN(a) \/ IsNaN(b) THEN NaN
    ELSE IF (IsInf(a) /\ IsInf(b)) \/ (IsZero(a) /\ IsZero(b)) THEN NaN
    ELSE IF IsInf(a) \/ IsZero(b) THEN SignedInf(IsNeg(a) # IsNeg(b))
    ELSE IF IsInf(b) \/ IsZero(a) THEN SignedZero(IsNeg(a) # IsNeg(b))
    ELSE Norm((IF IsNeg(b) THEN -1 ELSE 1) * a[1] * b[2], Abs(b[1]) * a[2])

\* Close with the comparison negated, !(fabs(v - target) >= 1e-8): true for
\* a NaN difference
Close_NaN(v, t) ==
    LET diff == Sub(v, t)
    IN  \/ IsNaN(diff)
        \/ /\ diff[2] # 0
           /\ \/ Den(diff) \div EpsDen > Abs(diff[1])
              \/ /\ Den(diff) \div EpsDen = Abs(diff[1])
                 /\ Den(diff) % EpsDen > 0

\* fabs(v - target) < 1e-8: false for an infinite or NaN difference.
\* |n|/d < 1/EpsDen is d > |n| * EpsDen, written without the large product.
Close(v, t) ==
    LET diff == Sub(v, t)
    IN  /\ diff[2] # 0
        /\ \/ Den(diff) \div EpsDen > Abs(diff[1])
           \/ /\ Den(diff) \div EpsDen = Abs(diff[1])
              /\ Den(diff) % EpsDen > 0

\* ------------------------------------------------------------- tokens
\* A token of a trace (a std::string) is <<kind, sign, digits>>: a number
\* "num" printed with six decimals (digits is the value scaled by 10^6 and
\* rounded to nearest, ties to even; sign 1 prints "-"), "inf", "nan" (the
\* sign a NaN prints with is not modelled), or an operator symbol.
RoundHalfEven(n, d) ==
    LET q == n \div d
        r == n % d
    IN  IF 2 * r > d \/ (2 * r = d /\ q % 2 = 1) THEN q + 1 ELSE q

to_string(v) ==
    IF IsNaN(v) THEN <<"nan", 0, 0>>
    ELSE IF IsInf(v) THEN <<"inf", IF IsNeg(v) THEN 1 ELSE 0, 0>>
    ELSE <<"num", IF IsNeg(v) THEN 1 ELSE 0,
           (Abs(v[1]) \div Den(v)) * ToStringScale
               + RoundHalfEven((Abs(v[1]) % Den(v)) * ToStringScale, Den(v))>>

Sym(s) == <<s, 0, 0>>

\* ------------------------------------------------------ the traversal
\* the six operations in the order of the loop body
NOps == 6
OpVal(op, a, b) ==
    CASE op = 1 -> Add(a, b)
      [] op = 2 -> Mul(a, b)
      [] op = 3 -> Sub(a, b)
      [] op = 4 -> Div(a, b)
      [] op = 5 -> Sub(b, a)
      [] op = 6 -> Div(b, a)

\* new_nums: nums without positions i and j, then val pushed (or assigned
\* to back())
RECURSIVE Without(_, _, _, _)
Without(nums, i, j, k) ==
    IF k > Len(nums) THEN <<>>
    ELSE IF k # i /\ k # j THEN <<nums[k]>> \o Without(nums, i, j, k + 1)
    ELSE Without(nums, i, j, k + 1)

\* new_nums with position j left in
new_nums_KeepJ(nums, i, j, val) == Append(Without(nums, i, i, 1), val)

new_nums(nums, i, j, val) == Append(Without(nums, i, j, 1), val)

\* bool solution_exists(vector<double>& nums, double target)
RECURSIVE solution_exists(_, _)

\* solution_exists with the outer loop one position short (i + 2 < size)
solution_exists_ShortLoop(nums, t) ==
    IF Len(nums) = 1 THEN Close(nums[1], t)
    ELSE \E i \in 1..(Len(nums) - 2) : \E j \in (i + 1)..Len(nums) :
            \E op \in 1..NOps :
                solution_exists(new_nums(nums, i, j, OpVal(op, nums[i], nums[j])), t)

solution_exists(nums, t) ==
    IF Len(nums) = 1 THEN Close(nums[1], t)
    ELSE \E i \in 1..(Len(nums) - 1) : \E j \in (i + 1)..Len(nums) :
            \/ solution_exists(new_nums(nums, i, j, Add(nums[i], nums[j])), t)
            \/ solution_exists(new_nums(nums, i, j, Mul(nums[i], nums[j])), t)
            \/ solution_exists(new_nums(nums, i, j, Sub(nums[i], nums[j])), t)
            \/ solution_exists(new_nums(nums, i, j, Div(nums[i], nums[j])), t)
            \/ solution_exists(new_nums(nums, i, j, Sub(nums[j], nums[i])), t)
            \/ solution_exists(new_nums(nums, i, j, Div(nums[j], nums[i])), t)

PopBack(s) == SubSeq(s, 1, Len(s) - 1)
Pop2(s) == PopBack(PopBack(s))
Pop4(s) == Pop2(Pop2(s))

\* FirstOutput with two tokens popped, not four, before the reverse
\* subtraction
FirstOutput_Pop2(op, out, a, b) ==
    CASE op = 1 -> out \o <<to_string(a), to_string(b), to_string(Add(a, b)), Sym("+")>>
      [] op = 2 -> Pop2(out) \o <<to_string(Mul(a, b)), Sym("*")>>
      [] op = 3 -> Pop2(out) \o <<to_string(Sub(a, b)), Sym("-")>>
      [] op = 4 -> Pop2(out) \o <<to_string(Div(a, b)), Sym("/")>>
      [] op = 5 -> Pop2(out) \o <<to_string(b), to_string(a), to_string(Sub(b, a)), Sym("-")>>
      [] op = 6 -> Pop2(out) \o <<to_string(Div(b, a)), Sym("/")>>

\* output as the loop body of solve_first has it when it makes the call of
\* operation op, given output as it was at the call of operation op - 1
\* (prev_ops for op = 1)
FirstOutput(op, out, a, b) ==
    CASE op = 1 -> out \o <<to_string(a), to_string(b), to_string(Add(a, b)), Sym("+")>>
      [] op = 2 -> Pop2(out) \o <<to_string(Mul(a, b)), Sym("*")>>
      [] op = 3 -> Pop2(out) \o <<to_string(Sub(a, b)), Sym("-")>>
      [] op = 4 -> Pop2(out) \o <<to_string(Div(a, b)), Sym("/")>>
      [] op = 5 -> Pop4(out) \o <<to_string(b), to_string(a), to_string(Sub(b, a)), Sym("-")>>
      [] op = 6 -> Pop2(out) \o <<to_string(Div(b, a)), Sym("/")>>

\* AllOutput with the operands of the reverse operations not swapped
AllOutput_NoSwap(op, out, a, b) ==
    CASE op = 1 -> out \o <<to_string(a), to_string(b), to_string(Add(a, b)), Sym("+")>>
      [] op = 2 -> Pop2(out) \o <<to_string(Mul(a, b)), Sym("*")>>
      [] op = 3 -> Pop2(out) \o <<to_string(Sub(a, b)), Sym("-")>>
      [] op = 4 -> Pop2(out) \o <<to_string(Div(a, b)), Sym("/")>>
      [] op = 5 -> Pop4(out) \o <<to_string(a), to_string(b), to_string(Sub(b, a)), Sym("-")>>
      [] op = 6 -> Pop2(out) \o <<to_string(Div(b, a)), Sym("/")>>

\* the same for the loop body of solve_all
AllOutput(op, out, a, b) ==
    CASE op = 1 -> out \o <<to_string(a), to_string(b), to_string(Add(a, b)), Sym("+")>>
      [] op = 2 -> Pop2(out) \o <<to_string(Mul(a, b)), Sym("*")>>
      [] op = 3 -> Pop2(out) \o <<to_string(Sub(a, b)), Sym("-")>>
      [] op = 4 -> Pop2(out) \o <<to_string(Div(a, b)), Sym("/")>>
      [] op = 5 -> Pop4(out) \o <<to_string(b), to_string(a), to_string(Sub(b, a)), Sym("-")>>
      [] op = 6 -> Pop2(out) \o <<to_string(Div(b, a)), Sym("/")>>

\* bool solve_first(vector<double>& nums, vector<string> prev_ops, double target)
\* The result is [ret, first]: the value returned and what the call wrote to
\* first_solution (<<>> when it wrote nothing, <<trace>> when it wrote trace).
\* solve_first_body is the body of the two loops at (i, j): six calls, each
\* returning at once when it succeeds; solve_first_loop runs the body from
\* (i, j) on, i ascending and j ascending within i.
NoFirst == [ret |-> FALSE, first |-> <<>>]

RECURSIVE solve_first(_, _, _), solve_first_body(_, _, _, _, _), solve_first_loop(_, _, _, _, _)
solve_first(nums, prev_ops, t) ==
    IF Len(nums) = 1
    THEN IF Close(nums[1], t)
         THEN [ret |-> TRUE, first |-> <<prev_ops>>]
         ELSE NoFirst
    ELSE IF 1 < Len(nums)
    THEN solve_first_loop(nums, prev_ops, t, 1, 2)
    ELSE NoFirst

\* solve_first_body with the multiplication tried before the addition
solve_first_body_MulFirst(nums, prev_ops, t, i, j) ==
    LET a == nums[i]
        b == nums[j]
        out1 == FirstOutput(1, prev_ops, a, b)
        out2 == FirstOutput(2, out1, a, b)
        r1 == solve_first(new_nums(nums, i, j, OpVal(1, a, b)), out1, t)
        r2 == solve_first(new_nums(nums, i, j, OpVal(2, a, b)), out2, t)
    IN  IF r2.ret THEN r2
        ELSE IF r1.ret THEN r1
        ELSE NoFirst

solve_first_body(nums, prev_ops, t, i, j) ==
    LET a == nums[i]
        b == nums[j]
        out1 == FirstOutput(1, prev_ops, a, b)
        out2 == FirstOutput(2, out1, a, b)
        out3 == FirstOutput(3, out2, a, b)
        out4 == FirstOutput(4, out3, a, b)
        out5 == FirstOutput(5, out4, a, b)
        out6 == FirstOutput(6, out5, a, b)
        r1 == solve_first(new_nums(nums, i, j, OpVal(1, a, b)), out1, t)
        r2 == solve_first(new_nums(nums, i, j, OpVal(2, a, b)), out2, t)
        r3 == solve_first(new_nums(nums, i, j, OpVal(3, a, b)), out3, t)
        r4 == solve_first(new_nums(nums, i, j, OpVal(4, a, b)), out4, t)
        r5 == solve_first(new_nums(nums, i, j, OpVal(5, a, b)), out5, t)
        r6 == solve_first(new_nums(nums, i, j, OpVal(6, a, b)), out6, t)
    IN  IF r1.ret THEN r1
        ELSE IF r2.ret THEN r2
        ELSE IF r3.ret THEN r3
        ELSE IF r4.ret THEN r4
        ELSE IF r5.ret THEN r5
        ELSE IF r6.ret THEN r6
        ELSE NoFirst

solve_first_loop(nums, prev_ops, t, i, j) ==
    LET r == solve_first_body(nums, prev_ops, t, i, j)
    IN  IF r.ret THEN r
        ELSE IF j < Len(nums) THEN solve_first_loop(nums, prev_ops, t, i, j + 1)
        ELSE IF i + 2 <= Len(nums) THEN solve_first_loop(nums, prev_ops, t, i + 1, i + 2)
        ELSE NoFirst

\* void solve_all(vector<double>& nums, vector<string> prev_ops, double target)
\* The result is what the call pushes to the member solutions, in the order
\* of the pushes.  solve_all_body is the body of the two loops at (i, j): six
\* calls, none skipped; solve_all_loop runs the body from (i, j) on.
RECURSIVE solve_all(_, _, _), solve_all_body(_, _, _, _, _), solve_all_loop(_, _, _, _, _)
solve_all(nums, prev_ops, t) ==
    IF Len(nums) = 1
    THEN IF Close(nums[1], t) THEN <<prev_ops>> ELSE <<>>
    ELSE IF 1 < Len(nums)
    THEN solve_all_loop(nums, prev_ops, t, 1, 2)
    ELSE <<>>

solve_all_body(nums, prev_ops, t, i, j) ==
    LET a == nums[i]
        b == nums[j]
        out1 == AllOutput(1, prev_ops, a, b)
        out2 == AllOutput(2, out1, a, b)
        out3 == AllOutput(3, out2, a, b)
        out4 == AllOutput(4, out3, a, b)
        out5 == AllOutput(5, out4, a, b)
        out6 == AllOutput(6, out5, a, b)
    IN  solve_all(new_nums(nums, i, j, OpVal(1, a, b)), out1, t)
        \o solve_all(new_nums(nums, i, j, OpVal(2, a, b)), out2, t)
        \o solve_all(new_nums(nums, i, j, OpVal(3, a, b)), out3, t)
        \o solve_all(new_nums(nums, i, j, OpVal(4, a, b)), out4, t)
        \o solve_all(new_nums(nums, i, j, OpVal(5, a, b)), out5, t)
        \o solve_all(new_nums(nums, i, j, OpVal(6, a, b)), out6, t)

solve_all_loop(nums, prev_ops, t, i, j) ==
    solve_all_body(nums, prev_ops, t, i, j)
    \o (IF j < Len(nums) THEN solve_all_loop(nums, prev_ops, t, i, j + 1)
        ELSE IF i + 2 <= Len(nums) THEN solve_all_loop(nums, prev_ops, t, i + 1, i + 2)
        ELSE <<>>)

\* ---------------------------------------------------------- the object
\* numbers, target, solutions, first_solution: the members of Solution
\* (max_generated is read by no search and is left out).
\* last, ret: the method that ran last and what it returned ("true",
\* "false" or "void").
\* budget: the calls and assignments the object may still see.
\* mode, stack, steps: the search in progress, its call stack and the calls
\* and returns it has made so far (SpecStep only).
VARIABLES numbers, target, solutions, first_solution, last, ret, budget, mode, stack, steps

vars == <<numbers, target, solutions, first_solution, last, ret, budget, mode, stack, steps>>

RECURSIVE SeqsUpTo(_, _)
SeqsUpTo(S, n) ==
    IF n = 0 THEN {<<>>}
    ELSE LET P == SeqsUpTo(S, n - 1)
         IN  P \cup {Append(p, x) : p \in {q \in P : Len(q) = n - 1}, x \in S}

\* the ints a vector is made of: 0 (a zero divisor), 1, and 3 (1/3 has no
\* finite decimal expansion)
NumberPool == {0, 1, 3}
\* the ints of a vector of the call-by-call machine
StepPool == {1, 3}
\* the targets: 0, 1 and the default of the one-argument constructor
Targets == {<<0, 1>>, <<1, 1>>, <<DefaultTarget, 1>>}

\* vector<double> values(numbers.begin(), numbers.end())
Values(nums) == [k \in 1..Len(nums) |-> ToDouble(nums[k])]

\* what a caller sees returned: "true", "false", or "void"
BoolStr(b) == IF b THEN "true" ELSE "false"

\* Solution(vector<int> arg1, double arg2)
Constructed(len) ==
    /\ numbers \in SeqsUpTo(NumberPool, len)
    /\ target \in Targets
    /\ solutions = <<>>
    /\ first_solution = <<>>
    /\ last = "Solution"
    /\ ret = "void"
    /\ mode = "idle"
    /\ stack = <<>>
    /\ steps = 0

\* one call or assignment on a freshly constructed object
Init == Constructed(MaxLen) /\ budget = 1

\* an object that is used again
InitLife == Constructed(LifeLen) /\ budget = MaxCalls

is_valid_input ==
    /\ budget > 0
    /\ ret' = BoolStr(solution_exists(Values(numbers), target))
    /\ last' = "is_valid_input"
    /\ budget' = budget - 1
    /\ UNCHANGED <<numbers, target, solutions, first_solution, mode, stack, steps>>

\* find_first_solution storing the (empty) output of a failed search
find_first_solution_Overwrites ==
    /\ budget > 0
    /\ LET r == solve_first(Values(numbers), <<>>, target)
       IN  /\ ret' = BoolStr(r.ret)
           /\ first_solution' = IF r.first = <<>> THEN <<>> ELSE r.first[1]
    /\ last' = "find_first_solution"
    /\ budget' = budget - 1
    /\ UNCHANGED <<numbers, target, solutions, mode, stack, steps>>

find_first_solution ==
    /\ budget > 0
    /\ LET r == solve_first(Values(numbers), <<>>, target)
       IN  /\ ret' = BoolStr(r.ret)
           /\ first_solution' = IF r.first = <<>> THEN first_solution ELSE r.first[1]
    /\ last' = "find_first_solution"
    /\ budget' = budget - 1
    /\ UNCHANGED <<numbers, target, solutions, mode, stack, steps>>

\* the statement "solutions;" of line 52 has no effect: the traces are
\* pushed after those of earlier calls
find_all_solutions ==
    /\ budget > 0
    /\ solutions' = solutions \o solve_all(Values(numbers), <<>>, target)
    /\ ret' = "void"
    /\ last' = "find_all_solutions"
    /\ budget' = budget - 1
    /\ UNCHANGED <<numbers, target, first_solution, mode, stack, steps>>

\* an assignment to the public member target
SetTarget ==
    /\ budget > 0
    /\ \E t \in Targets \ {target} : target' = t
    /\ last' = "target"
    /\ ret' = "void"
    /\ budget' = budget - 1
    /\ UNCHANGED <<numbers, solutions, first_solution, mode, stack, steps>>

\* an assignment to the public member numbers (a vector of length 0 or 1)
SetNumbers ==
    /\ budget > 0
    /\ \E v \in SeqsUpTo(NumberPool, 1) \ {numbers} : numbers' = v
    /\ last' = "numbers"
    /\ ret' = "void"
    /\ budget' = budget - 1
    /\ UNCHANGED <<target, solutions, first_solution, mode, stack, steps>>

Next ==
    \/ is_valid_input
    \/ find_first_solution
    \/ find_all_solutions
    \/ SetTarget
    \/ SetNumbers

Spec == Init /\ [][Next]_vars

SpecLife == InitLife /\ [][Next]_vars

\* ------------------------------------------- the searches call by call
\* The same three searches with the recursion made explicit: stack holds one
\* frame per active call of solution_exists, solve_first or solve_all
\* (mode says which), the innermost last.  A frame is
\*   nums, prev_ops   the arguments of the call
\*   pc               "call": in the loop body at (i, j), about to make the
\*                    recursive call of operation op with output out;
\*                    "ret": about to return rv
\*   base             the call is at the base case (nums.size() == 1)
\* solution_exists builds no output: out stays empty in its frames.
StepOutput(m, op, out, a, b) ==
    IF m = "solve_first" THEN FirstOutput(op, out, a, b)
    ELSE IF m = "solve_all" THEN AllOutput(op, out, a, b)
    ELSE <<>>

\* the frame of a call when it is entered
Enter(m, nums, prev_ops, t) ==
    IF Len(nums) = 1
    THEN [nums |-> nums, prev_ops |-> prev_ops, pc |-> "ret", base |-> TRUE,
          rv |-> Close(nums[1], t), i |-> 0, j |-> 0, op |-> 0, out |-> <<>>]
    ELSE IF 1 < Len(nums)
    THEN [nums |-> nums, prev_ops |-> prev_ops, pc |-> "call", base |-> FALSE,
          rv |-> FALSE, i |-> 1, j |-> 2, op |-> 1,
          out |-> StepOutput(m, 1, prev_ops, nums[1], nums[2])]
    ELSE [nums |-> nums, prev_ops |-> prev_ops, pc |-> "ret", base |-> FALSE,
          rv |-> FALSE, i |-> 0, j |-> 0, op |-> 0, out |-> <<>>]

\* the caller's frame f after a call that did not end the loops: the next
\* operation, the next j, the next i, or the end of the loops
Advance(m, f) ==
    IF f.op < NOps
    THEN [f EXCEPT !.op = f.op + 1,
                   !.out = StepOutput(m, f.op + 1, f.out, f.nums[f.i], f.nums[f.j])]
    ELSE IF f.j < Len(f.nums)
    THEN [f EXCEPT !.j = f.j + 1, !.op = 1,
                   !.out = StepOutput(m, 1, f.prev_ops, f.nums[f.i], f.nums[f.j + 1])]
    ELSE IF f.i + 2 <= Len(f.nums)
    THEN [f EXCEPT !.i = f.i + 1, !.j = f.i + 2, !.op = 1,
                   !.out = StepOutput(m, 1, f.prev_ops, f.nums[f.i + 1], f.nums[f.i + 2])]
    ELSE [f EXCEPT !.pc = "ret", !.rv = FALSE]

\* the caller's frame f after its callee returned rv: solution_exists and
\* solve_first return true at once, solve_all ignores the callee
Resume(m, f, rv) ==
    IF m # "solve_all" /\ rv
    THEN [f EXCEPT !.pc = "ret", !.rv = TRUE]
    ELSE Advance(m, f)

\* the public method that runs search m
Method(m) ==
    CASE m = "solution_exists" -> "is_valid_input"
      [] m = "solve_first" -> "find_first_solution"
      [] m = "solve_all" -> "find_all_solutions"

\* a public method is called: the outermost call of its search is entered
Start(m) ==
    /\ mode = "idle"
    /\ budget > 0
    /\ mode' = m
    /\ stack' = <<Enter(m, Values(numbers), <<>>, target)>>
    /\ budget' = budget - 1
    /\ steps' = 0
    /\ UNCHANGED <<numbers, target, solutions, first_solution, last, ret>>

StartExists == Start("solution_exists")
StartFirst == Start("solve_first")
StartAll == Start("solve_all")

\* the innermost call is at a recursive call / at a return
CanCall == mode # "idle" /\ stack # <<>> /\ stack[Len(stack)].pc = "call"
CanReturn == mode # "idle" /\ stack # <<>> /\ stack[Len(stack)].pc = "ret"

\* the innermost call makes its next recursive call
Call ==
    /\ CanCall
    /\ LET f == stack[Len(stack)]
       IN  /\ stack' = Append(stack,
                  Enter(mode,
                        new_nums(f.nums, f.i, f.j, OpVal(f.op, f.nums[f.i], f.nums[f.j])),
                        f.out, target))
    /\ steps' = steps + 1
    /\ UNCHANGED <<numbers, target, solutions, first_solution, last, ret, budget, mode>>

\* the innermost call returns: a successful base case stores its trace
\* first; the outermost call hands the result to the public method
Return ==
    /\ CanReturn
    /\ LET f == stack[Len(stack)]
       IN  /\ first_solution' =
                  IF mode = "solve_first" /\ f.base /\ f.rv
                  THEN f.prev_ops ELSE first_solution
           /\ solutions' =
                  IF mode = "solve_all" /\ f.base /\ f.rv
                  THEN Append(solutions, f.prev_ops) ELSE solutions
           /\ IF Len(stack) = 1
              THEN /\ stack' = <<>>
                   /\ mode' = "idle"
                   /\ last' = Method(mode)
                   /\ ret' = IF mode = "solve_all" THEN "void" ELSE BoolStr(f.rv)
              ELSE /\ stack' = [PopBack(stack) EXCEPT
                                   ![Len(stack) - 1] = Resume(mode, stack[Len(stack) - 1], f.rv)]
                   /\ UNCHANGED <<mode, last, ret>>
    /\ steps' = steps + 1
    /\ UNCHANGED <<numbers, target, budget>>

StepNext ==
    \/ StartExists
    \/ StartFirst
    \/ StartAll
    \/ Call
    \/ Return

\* one method call on a freshly constructed object
InitStep ==
    /\ numbers \in SeqsUpTo(StepPool, StepLen)
    /\ target \in {ToDouble(1), ToDouble(DefaultTarget)}
    /\ solutions = <<>>
    /\ first_solution = <<>>
    /\ last = "Solution"
    /\ ret = "void"
    /\ mode = "idle"
    /\ stack = <<>>
    /\ steps = 0
    /\ budget = 1

\* the program is single-threaded and synchronous: a call that can take its
\* next step takes it
SpecStep == InitStep /\ [][StepNext]_vars /\ WF_vars(Call \/ Return)

\* what the recursive operators say the finished call by call search did
StepAgrees ==
    (mode = "idle" /\ last # "Solution") =>
        /\ last = "is_valid_input" =>
               ret = BoolStr(solution_exists(Values(numbers), target))
        /\ last = "find_first_solution" =>
               LET r == solve_first(Values(numbers), <<>>, target)
               IN  /\ ret = BoolStr(r.ret)
                   /\ r.ret => first_solution = r.first[1]
        /\ last = "find_all_solutions" =>
               solutions = solve_all(Values(numbers), <<>>, target)

\* ------------------------------------------------------------ claims
Methods == {"is_valid_input", "find_first_solution", "find_all_solutions"}

\* the reduction steps of the data model, by number: a choice c at a vector
\* of length n is the pair of positions number c \div 6 (in the order (1,2),
\* (1,3), ..., (1,n), (2,3), ...) with operation c % 6 of Add, Multiply,
\* SubtractForward, DivideForward, SubtractReverse, DivideReverse
RECURSIVE PairsFrom(_, _, _)
PairsFrom(n, i, j) ==
    IF i >= n THEN <<>>
    ELSE IF j > n THEN PairsFrom(n, i + 1, i + 2)
    ELSE <<(<<i, j>>)>> \o PairsFrom(n, i, j + 1)

Choices(n) == 0..(6 * Len(PairsFrom(n, 1, 2)) - 1)
ChoicePair(n, c) == PairsFrom(n, 1, 2)[(c \div 6) + 1]
ChoiceOp(c) == <<"Add", "Multiply", "SubtractForward", "DivideForward",
                 "SubtractReverse", "DivideReverse">>[(c % 6) + 1]

\* the divisor of a step, <<>> for a step that does not divide
RefDivisor(op, a, b) ==
    CASE op = "DivideForward" -> <<b>>
      [] op = "DivideReverse" -> <<a>>
      [] OTHER -> <<>>

RefResult(op, a, b) ==
    CASE op = "Add" -> Add(a, b)
      [] op = "Multiply" -> Mul(a, b)
      [] op = "SubtractForward" -> Sub(a, b)
      [] op = "DivideForward" -> Div(a, b)
      [] op = "SubtractReverse" -> Sub(b, a)
      [] op = "DivideReverse" -> Div(b, a)

RefSymbol(op) ==
    CASE op \in {"Add"} -> Sym("+")
      [] op \in {"Multiply"} -> Sym("*")
      [] op \in {"SubtractForward", "SubtractReverse"} -> Sym("-")
      [] op \in {"DivideForward", "DivideReverse"} -> Sym("/")

\* the vector after choice c: the values at the two positions removed, the
\* result added
RefNext(cur, c) ==
    LET ij == ChoicePair(Len(cur), c)
    IN  [k \in 1..(Len(cur) - 1) |->
            IF k = Len(cur) - 1
            THEN RefResult(ChoiceOp(c), cur[ij[1]], cur[ij[2]])
            ELSE cur[IF k < ij[1] THEN k ELSE IF k + 1 < ij[2] THEN k + 1 ELSE k + 2]]

\* the four tokens of the step of choice c: operand, operand, result,
\* operator symbol, the operands swapped for the reverse operations
RefGroup(cur, c) ==
    LET ij == ChoicePair(Len(cur), c)
        a == cur[ij[1]]
        b == cur[ij[2]]
        op == ChoiceOp(c)
        r == to_string(RefResult(op, a, b))
    IN  IF op \in {"SubtractReverse", "DivideReverse"}
        THEN <<to_string(b), to_string(a), r, RefSymbol(op)>>
        ELSE <<to_string(a), to_string(b), r, RefSymbol(op)>>

\* some reduction path from cur ends within 1e-8 of t
RECURSIVE RefReach(_, _)
RefReach(cur, t) ==
    IF Len(cur) = 1 THEN Close(cur[1], t)
    ELSE \E c \in Choices(Len(cur)) : RefReach(RefNext(cur, c), t)

\* the trace of the first successful reduction path in depth-first order: at
\* every depth the least choice below which some path succeeds
RECURSIVE RefFirst(_, _)
RefFirst(cur, t) ==
    IF Len(cur) = 1 THEN <<>>
    ELSE LET ok == {c \in Choices(Len(cur)) : RefReach(RefNext(cur, c), t)}
             c == CHOOSE x \in ok : \A y \in ok : x <= y
         IN  RefGroup(cur, c) \o RefFirst(RefNext(cur, c), t)

\* some reduction path from cur in which no division has a zero divisor
\* ends within 1e-8 of t
RECURSIVE RefReachGuarded(_, _)
RefReachGuarded(cur, t) ==
    IF Len(cur) = 1 THEN Close(cur[1], t)
    ELSE \E c \in Choices(Len(cur)) :
            LET ij == ChoicePair(Len(cur), c)
                d == RefDivisor(ChoiceOp(c), cur[ij[1]], cur[ij[2]])
            IN  /\ d = <<>> \/ ~IsZero(d[1])
                /\ RefReachGuarded(RefNext(cur, c), t)

\* C1: for every vector of length >= 1 and every target, the existence check
\* returns true if and only if the first-solution search returns true.
C1_ExistsIffFirst ==
    (last = "find_first_solution" /\ Len(numbers) >= 1) =>
        ((ret = "true") <=> solution_exists(Values(numbers), target))

C1_Witness ==
    /\ last = "find_first_solution"
    /\ ret = "true"
    /\ Len(numbers) = MaxLen

\* the operation an operator symbol of a trace stands for
ApplySymbol(sym, x, y) ==
    CASE sym = Sym("+") -> Add(x, y)
      [] sym = Sym("*") -> Mul(x, y)
      [] sym = Sym("-") -> Sub(x, y)
      [] sym = Sym("/") -> Div(x, y)
      [] OTHER -> NaN

\* std::stod of a number token
Parse(tok) ==
    CASE tok[1] = "nan" -> NaN
      [] tok[1] = "inf" -> SignedInf(tok[2] = 1)
      [] tok[1] = "num" ->
            IF tok[3] = 0 THEN SignedZero(tok[2] = 1)
            ELSE Norm((IF tok[2] = 1 THEN -1 ELSE 1) * tok[3], ToStringScale)
      [] OTHER -> NaN

\* x == y on doubles
NumEq(x, y) == ~IsNaN(x) /\ ~IsNaN(y) /\ (x = y \/ (IsZero(x) /\ IsZero(y)))

Remove2(cur, i, j) == Without(cur, i, j, 1)

\* the replay of a trace on the values cur with the recorded tokens read back
\* as numbers: each step removes its two recorded operands from the current
\* values and adds operand1 op operand2, which is the recorded result; one
\* value is left, within 1e-8 of t
RECURSIVE ReplayRecorded(_, _, _)
ReplayRecorded(cur, trace, t) ==
    IF trace = <<>> THEN Len(cur) = 1 /\ Close(cur[1], t)
    ELSE /\ Len(trace) >= 4
         /\ \E i, j \in 1..Len(cur) :
               /\ i # j
               /\ NumEq(cur[i], Parse(trace[1]))
               /\ NumEq(cur[j], Parse(trace[2]))
               /\ LET r == ApplySymbol(trace[4], Parse(trace[1]), Parse(trace[2]))
                  IN  /\ NumEq(r, Parse(trace[3]))
                      /\ ReplayRecorded(Append(Remove2(cur, i, j), r),
                                        SubSeq(trace, 5, Len(trace)), t)

\* the replay with the tokens compared as they are printed: each step
\* removes two current values that print as its two recorded operands and
\* adds the result of the operation on them, which prints as the recorded
\* result; one value is left, within 1e-8 of t
RECURSIVE ReplayPrinted(_, _, _)
ReplayPrinted(cur, trace, t) ==
    IF trace = <<>> THEN Len(cur) = 1 /\ Close(cur[1], t)
    ELSE /\ Len(trace) >= 4
         /\ \E i, j \in 1..Len(cur) :
               /\ i # j
               /\ to_string(cur[i]) = trace[1]
               /\ to_string(cur[j]) = trace[2]
               /\ LET r == ApplySymbol(trace[4], cur[i], cur[j])
                  IN  /\ to_string(r) = trace[3]
                      /\ ReplayPrinted(Append(Remove2(cur, i, j), r),
                                       SubSeq(trace, 5, Len(trace)), t)

\* C2 as amended: every trace produced by find_all_solutions or
\* find_first_solution replays to a single value within 1e-8 of the target
\* when its tokens are compared at the six decimals they are printed with.
C2_ReplayPrinted ==
    /\ (last = "find_first_solution" /\ ret = "true") =>
           ReplayPrinted(Values(numbers), first_solution, target)
    /\ last = "find_all_solutions" =>
           \A k \in 1..Len(solutions) :
               ReplayPrinted(Values(numbers), solutions[k], target)

\* a trace with a step whose result does not print exactly
C2_Witness ==
    /\ last = "find_all_solutions"
    /\ \E k \in 1..Len(solutions) :
          /\ Len(solutions[k]) = 8
          /\ ~ReplayRecorded(Values(numbers), solutions[k], target)

\* C2 (as claimed): every trace produced by find_all_solutions or
\* find_first_solution, replayed step by step (each step removes the two
\* recorded operands from the current values and adds operand1 op operand2,
\* which equals the recorded result), reduces to a single value within 1e-8
\* of the target.
C2_ReplayRecorded ==
    /\ (last = "find_first_solution" /\ ret = "true") =>
           ReplayRecorded(Values(numbers), first_solution, target)
    /\ last = "find_all_solutions" =>
           \A k \in 1..Len(solutions) :
               ReplayRecorded(Values(numbers), solutions[k], target)

\* C3 (as claimed): after any call of find_all_solutions, get_all_solutions
\* is non-empty if and only if the existence check is true for the object's
\* current numbers and target.
C3_AllNonEmptyIffExists ==
    last = "find_all_solutions" =>
        ((solutions # <<>>) <=> solution_exists(Values(numbers), target))

\* C4 (as claimed): a second call of find_first_solution or
\* find_all_solutions with the same numbers and target leaves
\* get_first_solution and get_all_solutions as they were after the first.
C4_RepeatedCallSame ==
    [][(/\ last \in {"find_first_solution", "find_all_solutions"}
        /\ last' = last
        /\ budget' = budget - 1)
       => (first_solution' = first_solution /\ solutions' = solutions)]_vars

\* C5: the trace stored by find_first_solution is that of the first
\* successful reduction path in depth-first order (positions i ascending,
\* j ascending, operations in the order Add, Multiply, SubtractForward,
\* DivideForward, SubtractReverse, DivideReverse); on a fresh object it is
\* the first trace find_all_solutions records for the same input.
C5_FirstInOrder ==
    (last = "find_first_solution" /\ ret = "true") =>
        /\ first_solution = RefFirst(Values(numbers), target)
        /\ first_solution = Head(solve_all(Values(numbers), <<>>, target))

\* a first solution that is not the only one
C5_Witness ==
    /\ last = "find_first_solution"
    /\ ret = "true"
    /\ Len(numbers) = MaxLen
    /\ Len(solve_all(Values(numbers), <<>>, target)) > 1

\* what a search reported as success
Reported ==
    \/ last \in {"is_valid_input", "find_first_solution"} /\ ret = "true"
    \/ last = "find_all_solutions" /\ solutions # <<>>

\* some division the traversal of cur makes has a zero divisor
RECURSIVE ZeroDivisorExplored(_)
ZeroDivisorExplored(cur) ==
    /\ Len(cur) >= 2
    /\ \E c \in Choices(Len(cur)) :
          LET ij == ChoicePair(Len(cur), c)
              d == RefDivisor(ChoiceOp(c), cur[ij[1]], cur[ij[2]])
          IN  \/ d # <<>> /\ IsZero(d[1])
              \/ ZeroDivisorExplored(RefNext(cur, c))

\* C6: on an input with a zero divisor in some explored division, each of
\* the three searches completes and reports success only when the target is
\* reachable by a reduction path in which no division has a zero divisor.
C6_NoFalseSuccess ==
    (last \in Methods /\ Reported /\ ZeroDivisorExplored(Values(numbers))) =>
        RefReachGuarded(Values(numbers), target)

\* a success on an input where a quotient by zero leads to the target
C6_Witness ==
    /\ last \in Methods
    /\ Reported
    /\ ZeroDivisorExplored(Values(numbers))
    /\ Len(numbers) = 3
    /\ numbers[1] = 0
    /\ target = PosZero
    /\ LET v == Values(numbers)
       IN  Close(Div(v[3], Div(v[2], v[1])), target)

\* C7 (as claimed): a search called with an empty number sequence fails
\* fast with an error outcome that is not the "no solution" result.
C7_EmptyInputFails ==
    (last \in Methods /\ numbers = <<>>) => ret = "error"

\* a trace for a vector of length n: n - 1 groups of operand, operand,
\* result, operator symbol
NumberKinds == {"num", "inf", "nan"}
Symbols == {Sym("+"), Sym("*"), Sym("-"), Sym("/")}
WellFormed(trace, n) ==
    /\ Len(trace) = 4 * (n - 1)
    /\ \A k \in 1..Len(trace) :
          IF k % 4 = 0 THEN trace[k] \in Symbols ELSE trace[k][1] \in NumberKinds

\* C8: every trace recorded at a successful base case for an initial vector
\* of length n has 4*(n-1) tokens, n-1 groups of (operand, operand, result,
\* operator symbol), for all six operations.
C8_TraceShape ==
    /\ (last = "find_first_solution" /\ ret = "true") =>
           WellFormed(first_solution, Len(numbers))
    /\ last = "find_all_solutions" =>
           \A k \in 1..Len(solutions) : WellFormed(solutions[k], Len(numbers))

\* traces of every one of the six operations have been recorded
C8_Witness ==
    /\ last = "find_all_solutions"
    /\ Len(numbers) = MaxLen
    /\ \A c \in Choices(MaxLen) :
          \E k \in 1..Len(solutions) :
              SubSeq(solutions[k], 1, 4) = RefGroup(Values(numbers), c)

\* the calls on the stack have vectors one shorter each, down from the
\* vector of the object
Shrinks ==
    /\ stack # <<>> => Len(stack[1].nums) = Len(numbers)
    /\ \A k \in 1..(Len(stack) - 1) :
          Len(stack[k + 1].nums) = Len(stack[k].nums) - 1
    /\ (stack # <<>> /\ Len(numbers) >= 1) => Len(stack) - 1 <= Len(numbers) - 1

\* an upper bound of the steps (calls and returns) a call on a vector of
\* length n takes, its own return included
RECURSIVE StepsOf(_)
StepsOf(n) ==
    IF n < 2 THEN 1
    ELSE Cardinality(Choices(n)) * (1 + StepsOf(n - 1)) + 1

\* the number of the choice a frame is at
ChoiceOf(f) ==
    LET ps == PairsFrom(Len(f.nums), 1, 2)
        p == CHOOSE k \in 1..Len(ps) : ps[k] = <<f.i, f.j>>
    IN  6 * (p - 1) + (f.op - 1)

\* an upper bound of the steps frame k of the stack still takes: the
\* innermost frame has its current choice ahead, the others wait for it
StepsLeft(k) ==
    LET f == stack[k]
        n == Len(f.nums)
        todo == Cardinality(Choices(n)) - ChoiceOf(f) - (IF k = Len(stack) THEN 0 ELSE 1)
    IN  IF f.pc = "ret" THEN 1 ELSE todo * (1 + StepsOf(n - 1)) + 1

RECURSIVE SumStepsLeft(_)
SumStepsLeft(k) == IF k = 0 THEN 0 ELSE StepsLeft(k) + SumStepsLeft(k - 1)

Variant == SumStepsLeft(Len(stack))

\* C9: in all three searches every recursive call receives a vector one
\* element shorter than its caller's, the recursion depth never exceeds n-1
\* for an initial vector of length n >= 1, and every search terminates: a
\* search in progress is at a call or at a return, and the steps it has taken
\* plus a bound of the steps it has left never exceed the bound of a call on
\* the initial vector.
C9_ShrinksAndTerminates ==
    /\ Shrinks
    /\ mode # "idle" => (CanCall \/ CanReturn)
    /\ mode # "idle" => steps + Variant <= StepsOf(Len(numbers))
    /\ steps <= StepsOf(Len(numbers))

\* the same termination as a temporal formula, under the fairness of SpecStep
C9_Terminates == (mode # "idle") ~> (mode = "idle")

\* the recursion at its deepest
C9_Witness ==
    /\ Len(numbers) = StepLen
    /\ Len(stack) = Len(numbers)

\* C10: a call of find_first_solution that returns false leaves the stored
\* first_solution unchanged.
C10_FailedFirstKeeps ==
    [][(last' = "find_first_solution" /\ budget' = budget - 1 /\ ret' = "false")
       => first_solution' = first_solution]_vars

\* a failed search on an object that holds the trace of an earlier call
C10_Witness ==
    /\ last = "find_first_solution"
    /\ ret = "false"
    /\ first_solution # <<>>

====
